---------------------------- MODULE Spec2Model ----------------------------
(***************************************************************************)
(* Consented Link Tracker.                                                 *)
(*                                                                         *)
(* Two programs live in the repository:                                    *)
(*   - the SQLite-backed application (src/unnamed/part_000): admin routes  *)
(*     behind HTTP Basic Auth, the public landing page GET /l/:slug that   *)
(*     inserts a preliminary visit row, and POST /api/visit that updates   *)
(*     it;                                                                 *)
(*   - the in-memory variant (src/server.js): links and logs held in two   *)
(*     arrays.                                                             *)
(*                                                                         *)
(* Texts (URLs, header values, addresses) are sequences of one-character   *)
(* strings, so that the regular expression and the string operations of    *)
(* the code are computed, not assumed.  JavaScript values of a request     *)
(* body are tagged records; SQL values are tagged records with NULL.       *)
(***************************************************************************)
EXTENDS Integers, Sequences, FiniteSets, TLC

VARIABLES
    links,      \* table links, in rowid order
    visits,     \* table visits, in rowid order
    req,        \* the request handled by the last step
    res,        \* the response sent by the last step
    resolved,   \* history: ids of the visits an UPDATE of POST /api/visit has written
    memLinks,   \* server.js: let links = []
    memLogs,    \* server.js: let logs = []
    page,       \* the consent page loaded in one visitor's browser
    now         \* the clock new Date() reads

vars == <<links, visits, req, res, resolved, memLinks, memLogs, page, now>>

-----------------------------------------------------------------------------
(* Bounds of the model *)

MaxLinks == 2
MaxVisits == 2
MaxMemLinks == 2
MaxLogs == 2
MaxSkips == 2
MaxTime == 1

-----------------------------------------------------------------------------
(* JavaScript and SQL values *)

Undefined == [t |-> "undef"]
Null == [t |-> "null"]
Num(n) == [t |-> "num", n |-> n]
Str(s) == [t |-> "str", s |-> s]
Bool(b) == [t |-> "bool", b |-> b]

\* typeof v === "number"
IsNumber(v) == v.t = "num"

\* ToBoolean(v): undefined, null, false, 0 and "" are falsy
Truthy(v) ==
    CASE v.t = "undef" -> FALSE
      [] v.t = "null" -> FALSE
      [] v.t = "bool" -> v.b
      [] v.t = "num" -> v.n # 0
      [] v.t = "str" -> v.s # <<>>
      [] OTHER -> TRUE

\* a || b
OrElse(a, b) == IF Truthy(a) THEN a ELSE b

-----------------------------------------------------------------------------
(* Texts *)

IsPrefix(p, s) == Len(p) <= Len(s) /\ SubSeq(s, 1, Len(p)) = p

LowerChar(c) ==
    CASE c = "H" -> "h"
      [] c = "T" -> "t"
      [] c = "P" -> "p"
      [] c = "S" -> "s"
      [] OTHER -> c

LowerCase(s) == [i \in 1..Len(s) |-> LowerChar(s[i])]

\* index of the first occurrence of pat in s, 0 when there is none
IndexOf(s, pat) ==
    LET hits == { i \in 1..(Len(s) - Len(pat) + 1) : SubSeq(s, i, i + Len(pat) - 1) = pat }
    IN IF hits = {} THEN 0 ELSE CHOOSE i \in hits : \A j \in hits : i <= j

\* s.split(c)[0]
SplitFirst(s, c) ==
    LET i == IndexOf(s, <<c>>)
    IN IF i = 0 THEN s ELSE SubSeq(s, 1, i - 1)

\* s.trim()
Trim(s) ==
    LET solid == { i \in 1..Len(s) : s[i] # " " }
    IN IF solid = {} THEN <<>>
       ELSE LET lo == CHOOSE i \in solid : \A j \in solid : i <= j
                hi == CHOOSE i \in solid : \A j \in solid : i >= j
            IN SubSeq(s, lo, hi)

\* s.replace(pat, "") : the first occurrence only
RemoveFirst(s, pat) ==
    LET i == IndexOf(s, pat)
    IN IF i = 0 THEN s
       ELSE SubSeq(s, 1, i - 1) \o SubSeq(s, i + Len(pat), Len(s))

\* s.split(c): the pieces of s between the occurrences of the character c
RECURSIVE Split(_, _)
Split(s, c) ==
    LET i == IndexOf(s, <<c>>)
    IN IF i = 0 THEN <<s>>
       ELSE <<SubSeq(s, 1, i - 1)>> \o Split(SubSeq(s, i + 1, Len(s)), c)

\* parts.join(c)
RECURSIVE Join(_, _)
Join(parts, c) ==
    IF parts = <<>> THEN <<>>
    ELSE IF Len(parts) = 1 THEN parts[1]
    ELSE parts[1] \o <<c>> \o Join(Tail(parts), c)

\* s.slice(0, n)
Slice(s, n) == SubSeq(s, 1, IF Len(s) < n THEN Len(s) ELSE n)

\* \d+
IsDigits(s) ==
    /\ s # <<>>
    /\ \A i \in 1..Len(s) : s[i] \in {"0", "1", "2", "3", "4", "5", "6", "7", "8", "9"}

-----------------------------------------------------------------------------
(* Inputs: the texts and requests the environment may send *)

T_http == <<"h", "t", "t", "p", ":", "/", "/", "a">>
T_HTTPS == <<"H", "T", "T", "P", "S", ":", "/", "/", "a">>
T_ftp == <<"f", "t", "p", ":", "/", "/", "x">>
T_nohost == <<"h", "t", "t", "p", ":", "/", "a">>
T_inner == <<"x", "h", "t", "t", "p", ":", "/", "/", "a">>
T_empty == <<>>

\* x-forwarded-for: " 1.2, 9.9" ; socket.remoteAddress: "::ffff:7.7"
T_forwarded == <<" ", "1", ".", "2", ",", " ", "9", ".", "9">>
T_mapped == <<":", ":", "f", "f", "f", "f", ":", "7", ".", "7">>
T_agent == <<"U", "A">>
T_ref == <<"r", "1">>
T_ref2 == <<"r", "2">>

\* values nanoid() may return, and one slug it never returns
SlugPool == {"k3x9q2a", "p07mzt1"}
NoSlug == "zzzzzzz"

AdminUser == <<"a", "d", "m", "i", "n">>
AdminPass == <<"a", "d", "m", "i", "n", "1", "2", "3">>

\* the Authorization header of a request: none, the configured pair, another pair
NoAuth == [t |-> "undef"]
GoodAuth == [t |-> "basic", user |-> AdminUser, pass |-> AdminPass]
BadAuth == [t |-> "basic", user |-> AdminUser, pass |-> <<"g", "u", "e", "s", "s">>]
Auths == {NoAuth, GoodAuth, BadAuth}

\* the configured user with the password "admin123:z"
ColonAuth == [t |-> "basic", user |-> AdminUser, pass |-> AdminPass \o <<":", "z">>]

\* bodies of POST /create
Body_http == [target_url |-> Str(T_http), title |-> Str(<<"t">>)]
Body_HTTPS == [target_url |-> Str(T_HTTPS), title |-> Undefined]
Body_ftp == [target_url |-> Str(T_ftp), title |-> Undefined]
Body_nohost == [target_url |-> Str(T_nohost), title |-> Undefined]
Body_inner == [target_url |-> Str(T_inner), title |-> Undefined]
Body_empty == [target_url |-> Str(T_empty), title |-> Undefined]
Body_missing == [target_url |-> Undefined, title |-> Str(<<"t">>)]

CreateBodies ==
    {Body_http, Body_HTTPS, Body_ftp, Body_nohost, Body_inner, Body_empty, Body_missing}

\* POST /create requests: every body with the configured credentials, a
\* well-formed body with none or with wrong ones
CreateRequests ==
    { [auth |-> GoodAuth, body |-> b] : b \in CreateBodies }
        \cup { [auth |-> a, body |-> Body_http] : a \in {NoAuth, BadAuth} }

\* GET /links/:slug requests
DetailRequests ==
    { [auth |-> GoodAuth, slug |-> s] : s \in SlugPool \cup {NoSlug} }
        \cup { [auth |-> a, slug |-> "k3x9q2a"] : a \in {NoAuth, BadAuth} }

\* headers and socket of a visitor request
Visitor_Proxied ==
    [xff |-> Str(T_forwarded), remoteAddress |-> Str(T_mapped),
     userAgent |-> Str(T_agent), referer |-> Str(T_ref), referrer |-> Undefined]
Visitor_Direct ==
    [xff |-> Undefined, remoteAddress |-> Str(T_mapped),
     userAgent |-> Undefined, referer |-> Undefined, referrer |-> Str(T_ref2)]

\* GET /l/:slug requests
LandingRequests ==
    { [slug |-> "k3x9q2a", headers |-> Visitor_Proxied],
      [slug |-> "p07mzt1", headers |-> Visitor_Direct],
      [slug |-> NoSlug, headers |-> Visitor_Proxied] }

\* bodies of POST /api/visit, without the visitId
Consented_A == [consented |-> Bool(TRUE), latitude |-> Num(15), longitude |-> Num(25), accuracy |-> Num(10)]
Declined_Skipped == [consented |-> Bool(FALSE), latitude |-> Undefined, longitude |-> Undefined, accuracy |-> Undefined]
Consented_Partial == [consented |-> Bool(TRUE), latitude |-> Num(15), longitude |-> Undefined, accuracy |-> Str(<<"x">>)]
Declined_WithCoords == [consented |-> Bool(FALSE), latitude |-> Num(15), longitude |-> Num(25), accuracy |-> Num(10)]

Payloads == {Consented_A, Declined_Skipped, Consented_Partial, Declined_WithCoords}

\* a visitId no row ever has
NoVisitId == 99

\* POST /api/visit requests: every payload for the ids the table may hold,
\* two payloads for an id it never holds, a missing and a zero visitId
ApiVisitRequests ==
    { [visitId |-> Num(n), body |-> b] : n \in 1..MaxVisits, b \in Payloads }
        \cup { [visitId |-> Num(NoVisitId), body |-> b] : b \in {Consented_A, Declined_Skipped} }
        \cup { [visitId |-> Undefined, body |-> Consented_A],
               [visitId |-> Num(0), body |-> Declined_Skipped] }

-----------------------------------------------------------------------------
(* The SQLite-backed application *)

\* new Date().toISOString()
nowISO == now

\* a rowid taken from the number of rows without the AUTOINCREMENT step
NextRowIdReused(table) == IF Len(table) = 0 THEN 1 ELSE Len(table)

\* id INTEGER PRIMARY KEY AUTOINCREMENT: no row is ever deleted, so the next
\* rowid is one more than the number of rows
NextRowId(table) == Len(table) + 1

\* express-basic-auth with users {ADMIN_USER: ADMIN_PASS}
Authorized(auth) ==
    /\ auth.t = "basic"
    /\ auth.user = AdminUser
    /\ auth.pass = AdminPass

\* the pattern without its ^ anchor: http:// or https:// anywhere in the text
ValidTargetUrlUnanchored(u) ==
    /\ Truthy(u)
    /\ u.t = "str"
    /\ \/ IndexOf(LowerCase(u.s), <<"h", "t", "t", "p", ":", "/", "/">>) # 0
       \/ IndexOf(LowerCase(u.s), <<"h", "t", "t", "p", "s", ":", "/", "/">>) # 0

\* !target_url || !/^https?:\/\//i.test(target_url)  is false
ValidTargetUrl(u) ==
    /\ Truthy(u)
    /\ u.t = "str"
    /\ \/ IsPrefix(<<"h", "t", "t", "p", ":", "/", "/">>, LowerCase(u.s))
       \/ IsPrefix(<<"h", "t", "t", "p", "s", ":", "/", "/">>, LowerCase(u.s))

\* db.get("SELECT * FROM links WHERE slug = ?", slug): the row's index, 0 if none
LinkBySlug(slug) ==
    LET hits == { i \in 1..Len(links) : links[i].slug = slug }
    IN IF hits = {} THEN 0 ELSE CHOOSE i \in hits : TRUE

\* the row INSERT INTO links (slug, target_url, title, created_at) writes
NewLink(slug, body) ==
    [id |-> NextRowId(links),
     slug |-> slug,
     target_url |-> body.target_url.s,
     title |-> OrElse(body.title, Null),
     created_at |-> nowISO]

getClientIP(r) ==
    LET ip == IF Truthy(r.xff) THEN SplitFirst(r.xff.s, ",")
              ELSE OrElse(r.remoteAddress, Str(<<>>)).s
    IN RemoveFirst(Trim(ip), <<":", ":", "f", "f", "f", "f", ":">>)

\* the INSERT with user_agent and referer bound in the wrong order
NewVisitSwapped(link, r) ==
    [id |-> NextRowId(visits),
     link_id |-> link.id,
     created_at |-> nowISO,
     ip |-> getClientIP(r),
     user_agent |-> OrElse(r.referer, OrElse(r.referrer, Str(<<>>))).s,
     referer |-> OrElse(r.userAgent, Str(<<>>)).s,
     consented |-> 0,
     latitude |-> Null,
     longitude |-> Null,
     accuracy |-> Null]

\* the row INSERT INTO visits (link_id, created_at, ip, user_agent, referer)
\* writes; consented takes its DEFAULT 0, the location columns are NULL
NewVisit(link, r) ==
    [id |-> NextRowId(visits),
     link_id |-> link.id,
     created_at |-> nowISO,
     ip |-> getClientIP(r),
     user_agent |-> OrElse(r.userAgent, Str(<<>>)).s,
     referer |-> OrElse(r.referer, OrElse(r.referrer, Str(<<>>))).s,
     consented |-> 0,
     latitude |-> Null,
     longitude |-> Null,
     accuracy |-> Null]

\* UPDATE visits SET consented = ?, latitude = ?, longitude = ?, accuracy = ?
\* applied to one row
\* the UPDATE also setting created_at
UpdatedVisitStamped(row, body) ==
    [row EXCEPT !.consented = IF Truthy(body.consented) THEN 1 ELSE 0,
                !.latitude = IF IsNumber(body.latitude) THEN body.latitude ELSE Null,
                !.longitude = IF IsNumber(body.longitude) THEN body.longitude ELSE Null,
                !.accuracy = IF IsNumber(body.accuracy) THEN body.accuracy ELSE Null,
                !.created_at = nowISO]

UpdatedVisit(row, body) ==
    [row EXCEPT
        !.consented = IF Truthy(body.consented) THEN 1 ELSE 0,
        !.latitude = IF IsNumber(body.latitude) THEN body.latitude ELSE Null,
        !.longitude = IF IsNumber(body.longitude) THEN body.longitude ELSE Null,
        !.accuracy = IF IsNumber(body.accuracy) THEN body.accuracy ELSE Null]

\* the UPDATE with WHERE id <= ?
UpdateVisitsUpTo(table, visitId, body) ==
    [i \in 1..Len(table) |->
        IF visitId.t = "num" /\ table[i].id <= visitId.n
        THEN UpdatedVisit(table[i], body)
        ELSE table[i]]

\* the UPDATE without its WHERE clause
UpdateVisitsNoWhere(table, visitId, body) ==
    [i \in 1..Len(table) |-> UpdatedVisit(table[i], body)]

\* ... WHERE id = ? : every row whose id equals the bound value
UpdateVisits(table, visitId, body) ==
    [i \in 1..Len(table) |->
        IF visitId.t = "num" /\ table[i].id = visitId.n
        THEN UpdatedVisit(table[i], body)
        ELSE table[i]]

\* SELECT * FROM visits WHERE link_id = ? ORDER BY id DESC LIMIT ?
VisitLimit == 200

\* the SELECT with ORDER BY id ASC
VisitsOfLinkOldestFirst(linkId, limit) ==
    LET hits == { i \in 1..Len(visits) : visits[i].link_id = linkId }
        Rank(i) == Cardinality({ j \in hits : visits[j].id < visits[i].id }) + 1
        n == IF Cardinality(hits) < limit THEN Cardinality(hits) ELSE limit
    IN [k \in 1..n |-> visits[CHOOSE i \in hits : Rank(i) = k]]

VisitsOfLink(linkId, limit) ==
    LET hits == { i \in 1..Len(visits) : visits[i].link_id = linkId }
        Rank(i) == Cardinality({ j \in hits : visits[j].id > visits[i].id }) + 1
        n == IF Cardinality(hits) < limit THEN Cardinality(hits) ELSE limit
    IN [k \in 1..n |-> visits[CHOOSE i \in hits : Rank(i) = k]]

\* SELECT * FROM links ORDER BY id DESC LIMIT 50
LinkLimit == 50

RecentLinks(limit) ==
    LET n == IF Len(links) < limit THEN Len(links) ELSE limit
    IN [k \in 1..n |-> links[Len(links) + 1 - k]]

T_masked == <<" ", "(", "m", "a", "s", "k", "e", "d", ")">>
T_stars == <<":", "*", "*", "*", "*">>

\* /^\d+\.\d+\.\d+\.\d+$/.test(ip)
IsDottedQuad(ip) ==
    LET parts == Split(ip, ".")
    IN Len(parts) = 4 /\ \A i \in 1..4 : IsDigits(parts[i])

maskIP(ip) ==
    IF ip = <<>> THEN <<>>
    ELSE IF IsDottedQuad(ip)
    THEN Join([Split(ip, ".") EXCEPT ![4] = <<"0">>], ".") \o T_masked
    ELSE IF IndexOf(ip, <<":">>) # 0
    THEN Join(Slice(Split(ip, ":"), 4), ":") \o T_stars \o T_masked
    ELSE ip

UserAgentShown == 140

\* one <tr> of the visit history: what the reviewer sees of a stored visit
TableRow(v) ==
    [time |-> v.created_at,
     ip |-> maskIP(v.ip),
     user_agent |-> Slice(v.user_agent, UserAgentShown),
     referer |-> IF v.referer = <<>> THEN <<"-">> ELSE v.referer,
     location |-> IF Truthy(v.latitude) /\ Truthy(v.longitude)
                  THEN <<v.latitude, v.longitude, OrElse(v.accuracy, Str(<<"?">>))>>
                  ELSE <<>>,
     consented |-> (v.consented # 0)]

VisitTable(rows) == [k \in 1..Len(rows) |-> TableRow(rows[k])]

Status(code) == [status |-> code]

\* what the handlers of this application never touch
OtherServer == <<memLinks, memLogs, page, now>>

\* app.get("/", adminAuth, ...)
Dashboard(auth) ==
    /\ req' = [op |-> "GET /", auth |-> auth]
    /\ res' = IF ~Authorized(auth) THEN Status(401)
              ELSE [status |-> 200, links |-> RecentLinks(LinkLimit)]
    /\ UNCHANGED <<links, visits, resolved, OtherServer>>

\* app.post("/create", adminAuth, ...)
Create(auth, body) ==
    /\ Len(links) < MaxLinks
    /\ req' = [op |-> "POST /create", auth |-> auth, body |-> body]
    /\ IF ~Authorized(auth)
       THEN res' = Status(401) /\ UNCHANGED links
       ELSE IF ~ValidTargetUrl(body.target_url)
       THEN res' = Status(400) /\ UNCHANGED links
       ELSE \E slug \in SlugPool :
               IF LinkBySlug(slug) # 0
               THEN \* slug TEXT UNIQUE: the INSERT throws, the catch answers 500
                    res' = Status(500) /\ UNCHANGED links
               ELSE /\ links' = Append(links, NewLink(slug, body))
                    /\ res' = [status |-> 302, location |-> slug]
    /\ UNCHANGED <<visits, resolved, OtherServer>>

\* app.get("/links/:slug", adminAuth, ...)
LinkDetail(auth, slug) ==
    /\ req' = [op |-> "GET /links/:slug", auth |-> auth, slug |-> slug]
    /\ res' = IF ~Authorized(auth) THEN Status(401)
              ELSE IF LinkBySlug(slug) = 0 THEN Status(404)
              ELSE [status |-> 200,
                    link |-> links[LinkBySlug(slug)],
                    visits |-> VisitsOfLink(links[LinkBySlug(slug)].id, VisitLimit),
                    table |-> VisitTable(VisitsOfLink(links[LinkBySlug(slug)].id, VisitLimit))]
    /\ UNCHANGED <<links, visits, resolved, OtherServer>>

\* app.get("/l/:slug", ...)
Landing(slug, r) ==
    /\ Len(visits) < MaxVisits
    /\ req' = [op |-> "GET /l/:slug", slug |-> slug, headers |-> r]
    /\ IF LinkBySlug(slug) = 0
       THEN res' = Status(404) /\ UNCHANGED visits
       ELSE LET link == links[LinkBySlug(slug)]
                row == NewVisit(link, r)
            IN /\ visits' = Append(visits, row)
               /\ res' = [status |-> 200, visitId |-> row.id, slug |-> slug,
                          targetURL |-> link.target_url, cacheControl |-> "no-store"]
    /\ UNCHANGED <<links, resolved, OtherServer>>

\* the rows of the table an UPDATE ... WHERE id = visitId matches
MatchedIds(visitId) ==
    { visits[i].id : i \in { j \in 1..Len(visits) : visitId.t = "num" /\ visits[j].id = visitId.n } }

\* app.post("/api/visit", ...): the handler
HandleApiVisit(visitId, payload) ==
    /\ req' = [op |-> "POST /api/visit", visitId |-> visitId, body |-> payload]
    /\ IF ~Truthy(visitId)
       THEN res' = [status |-> 400, ok |-> FALSE] /\ UNCHANGED <<visits, resolved>>
       ELSE /\ visits' = UpdateVisits(visits, visitId, payload)
            /\ resolved' = resolved \cup MatchedIds(visitId)
            /\ res' = [status |-> 200, ok |-> TRUE]
    /\ UNCHANGED links

\* POST /api/visit sent by any client
ApiVisit(visitId, payload) ==
    /\ HandleApiVisit(visitId, payload)
    /\ UNCHANGED OtherServer

\* app.get("/health", ...)
Health ==
    /\ req' = [op |-> "GET /health"]
    /\ res' = [status |-> 200, ok |-> TRUE]
    /\ UNCHANGED <<links, visits, resolved, OtherServer>>

\* time passes between two requests
Tick ==
    /\ now < MaxTime
    /\ now' = now + 1
    /\ UNCHANGED <<links, visits, req, res, resolved, memLinks, memLogs, page>>

NoRequest == [op |-> "none"]
NoPage == [loaded |-> FALSE]

Init ==
    /\ links = <<>>
    /\ visits = <<>>
    /\ resolved = {}
    /\ req = NoRequest
    /\ res = NoRequest
    /\ memLinks = <<>>
    /\ memLogs = <<>>
    /\ page = NoPage
    /\ now = 0

Next ==
    \/ \E auth \in Auths : Dashboard(auth)
    \/ \E r \in CreateRequests : Create(r.auth, r.body)
    \/ \E r \in DetailRequests : LinkDetail(r.auth, r.slug)
    \/ \E r \in LandingRequests : Landing(r.slug, r.headers)
    \/ \E r \in ApiVisitRequests : ApiVisit(r.visitId, r.body)
    \/ Health

\* The SQLite-backed application serving requests in any order.  The clock is
\* read but does not advance here: every row of one behaviour gets the same
\* created_at (requests within one millisecond).
Spec == Init /\ [][Next]_vars

-----------------------------------------------------------------------------
(* Reviewing visits: the same application, with addresses of every family *)

\* "203.0.113.42", "a:b:1:2:3:4:5:6" and its like with a zero run, "a:b::1"
T_v4 == <<"2", "0", "3", ".", "0", ".", "1", "1", "3", ".", "4", "2">>
T_v6 == <<"a", ":", "b", ":", "1", ":", "2", ":", "3", ":", "4", ":", "5", ":", "6">>
T_v6short == <<"a", ":", "b", ":", ":", "1">>

Visitor_V4 ==
    [xff |-> Undefined, remoteAddress |-> Str(T_v4), userAgent |-> Str(T_agent),
     referer |-> Undefined, referrer |-> Undefined]
Visitor_V6 ==
    [xff |-> Undefined, remoteAddress |-> Str(T_v6), userAgent |-> Str(T_agent),
     referer |-> Undefined, referrer |-> Undefined]
Visitor_V6Short ==
    [xff |-> Undefined, remoteAddress |-> Str(T_v6short), userAgent |-> Str(T_agent),
     referer |-> Undefined, referrer |-> Undefined]

ReviewCreateRequests ==
    { [auth |-> GoodAuth, body |-> b] : b \in {Body_HTTPS, Body_inner} }

ReviewLandingRequests ==
    { [slug |-> "k3x9q2a", headers |-> Visitor_V4],
      [slug |-> "k3x9q2a", headers |-> Visitor_V6Short],
      [slug |-> "p07mzt1", headers |-> Visitor_V6] }

\* one resolve call with a complete location, one with half of it
ReviewApiVisitRequests ==
    { [visitId |-> Num(1), body |-> Consented_A],
      [visitId |-> Num(2), body |-> Consented_Partial] }

ReviewDetailRequests ==
    { [auth |-> GoodAuth, slug |-> s] : s \in SlugPool } \cup { [auth |-> ColonAuth, slug |-> "k3x9q2a"] }

NextReview ==
    \/ Dashboard(GoodAuth)
    \/ \E r \in ReviewCreateRequests : Create(r.auth, r.body)
    \/ \E r \in ReviewDetailRequests : LinkDetail(r.auth, r.slug)
    \/ \E r \in ReviewLandingRequests : Landing(r.slug, r.headers)
    \/ \E r \in ReviewApiVisitRequests : ApiVisit(r.visitId, r.body)
    \/ Tick

\* The application creating links, taking visits and showing them to the
\* administrator, with time passing between requests.
SpecReview == Init /\ [][NextReview]_vars

-----------------------------------------------------------------------------
(* The in-memory variant, server.js *)

T_k == <<"k">>
T_p == <<"p">>
T_z == <<"z">>

\* the auth middleware: paths under /l/ pass; for the others the decoded
\* header "user:pass" is split on ":" and its first two pieces are compared
MemAuthorized(path, auth) ==
    \/ path = "/l/"
    \/ /\ auth.t = "basic"
       /\ LET parts == Split(auth.user \o <<":">> \o auth.pass, ":")
              user == Str(parts[1])
              pass == IF Len(parts) >= 2 THEN Str(parts[2]) ELSE Undefined
          IN user = Str(AdminUser) /\ pass = Str(AdminPass)

MemAuths == Auths \cup {ColonAuth}

\* POST /create requests of server.js
MemCreateRequests ==
    { [auth |-> GoodAuth, body |-> [slug |-> v]] : v \in {Str(T_k), Str(T_p), Str(T_empty), Undefined} }
        \cup { [auth |-> a, body |-> [slug |-> Str(T_k)]] : a \in {NoAuth, BadAuth, ColonAuth} }

\* GET /l/:slug requests of server.js
MemTrackRequests ==
    { [slug |-> T_k, headers |-> Visitor_Proxied],
      [slug |-> T_p, headers |-> Visitor_Direct],
      [slug |-> T_z, headers |-> Visitor_Direct] }

MemHasLink(slug) == \E i \in 1..Len(memLinks) : memLinks[i].slug = slug

\* { slug, ip: req.ip, userAgent: req.get('User-Agent'), time }
NewLog(slug, r) ==
    [slug |-> slug, ip |-> r.remoteAddress, userAgent |-> r.userAgent, time |-> nowISO]

Served == <<links, visits, resolved, page, now>>

\* app.get('/', ...)
MemDashboard(auth) ==
    /\ req' = [op |-> "GET /", auth |-> auth]
    /\ res' = IF MemAuthorized("/", auth) THEN Status(200) ELSE Status(401)
    /\ UNCHANGED <<memLinks, memLogs, Served>>

\* app.post('/create', ...)
MemCreate(auth, body) ==
    /\ Len(memLinks) < MaxMemLinks
    /\ req' = [op |-> "POST /create", auth |-> auth, body |-> body]
    /\ IF ~MemAuthorized("/create", auth)
       THEN res' = Status(401) /\ UNCHANGED memLinks
       ELSE IF ~Truthy(body.slug)
       THEN res' = Status(400) /\ UNCHANGED memLinks
       ELSE /\ memLinks' = Append(memLinks, [slug |-> body.slug.s, url |-> <<"/", "l", "/">> \o body.slug.s])
            /\ res' = [status |-> 200, link |-> memLinks'[Len(memLinks')]]
    /\ UNCHANGED <<memLogs, Served>>

\* app.get('/l/:slug', ...)
MemTrack(slug, r) ==
    /\ Len(memLogs) < MaxLogs
    /\ req' = [op |-> "GET /l/:slug", slug |-> slug, headers |-> r]
    /\ memLogs' = Append(memLogs, NewLog(slug, r))
    /\ res' = [status |-> 200, slug |-> slug]
    /\ UNCHANGED <<memLinks, Served>>

\* app.get('/logs', ...)
MemLogs(auth) ==
    /\ req' = [op |-> "GET /logs", auth |-> auth]
    /\ res' = IF MemAuthorized("/logs", auth) THEN [status |-> 200, logs |-> memLogs]
              ELSE Status(401)
    /\ UNCHANGED <<memLinks, memLogs, Served>>

NextMem ==
    \/ \E auth \in MemAuths : MemDashboard(auth)
    \/ \E r \in MemCreateRequests : MemCreate(r.auth, r.body)
    \/ \E r \in MemTrackRequests : MemTrack(r.slug, r.headers)
    \/ \E auth \in MemAuths : MemLogs(auth)
    \/ Tick

\* server.js serving requests in any order, with time passing.
SpecMem == Init /\ [][NextMem]_vars

-----------------------------------------------------------------------------
(* The consent page in the visitor's browser, and the server answering it *)

\* the link and the pending visit GET /l/k3x9q2a has just created, and the
\* request and response of that GET
ServedLink ==
    [id |-> 1, slug |-> "k3x9q2a", target_url |-> T_http,
     title |-> Str(<<"t">>), created_at |-> 0]
ServedVisit ==
    [id |-> 1, link_id |-> 1, created_at |-> 0, ip |-> <<"1", ".", "2">>,
     user_agent |-> T_agent, referer |-> T_ref, consented |-> 0,
     latitude |-> Null, longitude |-> Null, accuracy |-> Null]
ServedRequest == [op |-> "GET /l/:slug", slug |-> "k3x9q2a", headers |-> Visitor_Proxied]
ServedPage ==
    [status |-> 200, visitId |-> 1, slug |-> "k3x9q2a",
     targetURL |-> T_http, cacheControl |-> "no-store"]

\* error codes of the geolocation callback: PERMISSION_DENIED, TIMEOUT
GeoErrorCodes == {1, 3}

\* { visitId, slug, consented: false, reason }
DeclinedBody(reason) ==
    [consented |-> Bool(FALSE), latitude |-> Undefined, longitude |-> Undefined,
     accuracy |-> Undefined, slug |-> page.slug, reason |-> reason]

\* { visitId, slug, consented: true, latitude, longitude, accuracy } of pos.coords
ConsentedBody ==
    [consented |-> Bool(TRUE), latitude |-> Num(15), longitude |-> Num(25),
     accuracy |-> Num(10), slug |-> page.slug, reason |-> Undefined]

\* sendVisit(payload): fetch('/api/visit', ...) is started; handled records
\* whether the request has reached the server's handler
sendVisit(body) ==
    Append(page.fetches, [body |-> body, st |-> "sent", handled |-> FALSE])

Browsing == page.loaded /\ ~page.unloaded

PageFrame == <<links, visits, req, res, resolved, memLinks, memLogs, now>>

\* allowBtn click: the button is disabled and requestLocation() runs
ClickAllow ==
    /\ Browsing
    /\ page.allowBtn = "enabled"
    /\ page' = IF ~page.geo
               THEN [page EXCEPT !.allowBtn = "disabled",
                                 !.fetches = sendVisit(DeclinedBody(Str(<<"n", "s">>)))]
               ELSE [page EXCEPT !.allowBtn = "disabled", !.geoReq = "pending"]
    /\ UNCHANGED PageFrame

\* getCurrentPosition calls its success callback
GeoSuccess ==
    /\ Browsing
    /\ page.geoReq = "pending"
    /\ page' = [page EXCEPT !.geoReq = "called", !.fetches = sendVisit(ConsentedBody)]
    /\ UNCHANGED PageFrame

\* getCurrentPosition calls its error callback (denied, or the 10 s timeout)
GeoError(code) ==
    /\ Browsing
    /\ page.geoReq = "pending"
    /\ page' = [page EXCEPT !.geoReq = "called",
                            !.fetches = sendVisit(DeclinedBody(Num(code)))]
    /\ UNCHANGED PageFrame

\* skipBtn click
ClickSkip ==
    /\ Browsing
    /\ page.skips < MaxSkips
    /\ page' = [page EXCEPT !.skips = @ + 1,
                            !.fetches = sendVisit(DeclinedBody(Str(<<"s", "k">>)))]
    /\ UNCHANGED PageFrame

\* the server handles the request of fetch i
ServerHandle(i) ==
    /\ page.loaded
    /\ i \in 1..Len(page.fetches)
    /\ page.fetches[i].st = "sent"
    /\ HandleApiVisit(Num(page.visitId), page.fetches[i].body)
    /\ page' = [page EXCEPT !.fetches[i].st = "answered", !.fetches[i].handled = TRUE]
    /\ UNCHANGED <<memLinks, memLogs, now>>

\* the response of fetch i arrives: the promise resolves
FetchResolve(i) ==
    /\ Browsing
    /\ i \in 1..Len(page.fetches)
    /\ page.fetches[i].st = "answered"
    /\ page' = [page EXCEPT !.fetches[i].st = "resolved"]
    /\ UNCHANGED PageFrame

\* the request or the response of fetch i is lost: the promise rejects
FetchFail(i) ==
    /\ Browsing
    /\ i \in 1..Len(page.fetches)
    /\ page.fetches[i].st \in {"sent", "answered"}
    /\ page' = [page EXCEPT !.fetches[i].st = "rejected"]
    /\ UNCHANGED PageFrame

\* the code after await sendVisit(...): the catch ignores a rejection; go()
Continue(i) ==
    /\ Browsing
    /\ i \in 1..Len(page.fetches)
    /\ page.fetches[i].st \in {"resolved", "rejected"}
    /\ page' = [page EXCEPT !.fetches[i].st = "done", !.navigated = TRUE]
    /\ UNCHANGED PageFrame

\* the navigation go() started replaces the document: its scripts stop
Unload ==
    /\ Browsing
    /\ page.navigated
    /\ page' = [page EXCEPT !.unloaded = TRUE]
    /\ UNCHANGED PageFrame

FetchIds == 1..(MaxSkips + 1)

InitPage ==
    /\ links = <<ServedLink>>
    /\ visits = <<ServedVisit>>
    /\ resolved = {}
    /\ req = ServedRequest
    /\ res = ServedPage
    /\ memLinks = <<>>
    /\ memLogs = <<>>
    /\ now = 0
    /\ \E geo \in BOOLEAN :
          page = [loaded |-> TRUE, visitId |-> ServedPage.visitId, slug |-> ServedPage.slug,
                  targetURL |-> ServedPage.targetURL, geo |-> geo,
                  allowBtn |-> "enabled", geoReq |-> "none", skips |-> 0,
                  fetches |-> <<>>, navigated |-> FALSE, unloaded |-> FALSE]

GeoCallback == GeoSuccess \/ \E code \in GeoErrorCodes : GeoError(code)

NextPage ==
    \/ ClickAllow
    \/ GeoSuccess
    \/ \E code \in GeoErrorCodes : GeoError(code)
    \/ ClickSkip
    \/ \E i \in FetchIds : ServerHandle(i)
    \/ \E i \in FetchIds : FetchResolve(i)
    \/ \E i \in FetchIds : FetchFail(i)
    \/ \E i \in FetchIds : Continue(i)
    \/ Unload

\* One consent page, from the moment it is served, and the server handling
\* the requests that page sends.
SpecPage == InitPage /\ [][NextPage]_vars

\* The event loop runs every continuation that is ready, the location request
\* ends in one of its callbacks, and a response the server has sent arrives
\* unless it is lost; nothing makes the server complete a request, and fetch is
\* called without a timeout or an abort signal.
SpecPageLive ==
    /\ SpecPage
    /\ \A i \in FetchIds : WF_vars(Continue(i))
    /\ \A i \in FetchIds : WF_vars(FetchResolve(i))
    /\ WF_vars(GeoCallback)

\* The same, with a server that completes every request it is sent.
SpecPageSettling ==
    /\ SpecPageLive
    /\ \A i \in FetchIds : WF_vars(ServerHandle(i))

-----------------------------------------------------------------------------
(* Reading the store *)

HasVisit(id) == \E i \in 1..Len(visits) : visits[i].id = id

VisitById(id) == visits[CHOOSE i \in 1..Len(visits) : visits[i].id = id]

\* consented and the three location columns of a row
Outcome(row) == <<row.consented, row.latitude, row.longitude, row.accuracy>>

IsApiVisit(r) == r.op = "POST /api/visit"
IsLanding(r) == r.op = "GET /l/:slug"
IsCreate(r) == r.op = "POST /create"

-----------------------------------------------------------------------------
(* The visit lifecycle *)

\* C1: a visit transitions at most once: a visit that a resolve call has
\* already written keeps consented, latitude, longitude and accuracy in every
\* later step, whatever later resolve calls carry.
C1_TransitionsOnce ==
    [][\A i \in 1..Len(visits) :
          visits[i].id \in resolved => Outcome(visits'[i]) = Outcome(visits[i])]_vars

\* a body with consented set and a location field that is missing or no number
ConsentedWithoutNumbers(body) ==
    /\ Truthy(body.consented)
    /\ \/ ~IsNumber(body.latitude)
       \/ ~IsNumber(body.longitude)
       \/ ~IsNumber(body.accuracy)

\* C2: a resolve call that names a stored visit, with consented=true and a
\* missing or non-numeric location field, is answered with a validation error
\* (400) and leaves the visit as it was.
C2_RejectsInvalidConsent ==
    [][(/\ IsApiVisit(req')
        /\ Truthy(req'.visitId)
        /\ HasVisit(req'.visitId.n)
        /\ ConsentedWithoutNumbers(req'.body))
          => (res'.status = 400 /\ visits' = visits)]_vars

\* C3: location is stored only with consent: every visit whose consented flag
\* is 0 has latitude, longitude and accuracy NULL.
C3_LocationOnlyWithConsent ==
    \A i \in 1..Len(visits) :
        visits[i].consented = 0 =>
            /\ visits[i].latitude = Null
            /\ visits[i].longitude = Null
            /\ visits[i].accuracy = Null

\* C4: for every visit the three location columns are all NULL or all numbers.
C4_LocationAllOrNone ==
    \A i \in 1..Len(visits) :
        \/ /\ visits[i].latitude = Null
           /\ visits[i].longitude = Null
           /\ visits[i].accuracy = Null
        \/ /\ IsNumber(visits[i].latitude)
           /\ IsNumber(visits[i].longitude)
           /\ IsNumber(visits[i].accuracy)

\* C5: a resolve call whose visitId is well-formed (truthy) and names no stored
\* visit is answered {ok: true} with status 200, and changes no visit row and no
\* link: the tables are the same before and after.
C5_UnknownVisitIsNoOp ==
    [][(IsApiVisit(req') /\ Truthy(req'.visitId) /\ ~HasVisit(req'.visitId.n))
          => (res' = [status |-> 200, ok |-> TRUE] /\ visits' = visits /\ links' = links)]_vars

C5_Witness ==
    /\ IsApiVisit(req)
    /\ req.visitId = Num(NoVisitId)
    /\ req.body = Consented_A
    /\ res = [status |-> 200, ok |-> TRUE]
    /\ Len(visits) = 2
    /\ ~HasVisit(NoVisitId)

\* the values the two visitor requests carry: the first forwarded address
\* "1.2" and the socket address "7.7", the User-Agent, the Referer
RequestIp(h) == IF h = Visitor_Proxied THEN <<"1", ".", "2">> ELSE <<"7", ".", "7">>
RequestAgent(h) == IF h = Visitor_Proxied THEN T_agent ELSE <<>>
RequestReferer(h) == IF h = Visitor_Proxied THEN T_ref ELSE T_ref2

\* C8: a visit is born pending: right after a successful GET /l/:slug the
\* visit named in the page has consented 0, the three location columns NULL,
\* the id of the link of the slug, and the ip, user agent and referer of the
\* request.
C8_BornPending ==
    (IsLanding(req) /\ res.status = 200) =>
        /\ HasVisit(res.visitId)
        /\ LET v == VisitById(res.visitId)
           IN /\ v.consented = 0
              /\ v.latitude = Null /\ v.longitude = Null /\ v.accuracy = Null
              /\ \E i \in 1..Len(links) :
                    links[i].slug = req.slug /\ v.link_id = links[i].id
              /\ v.ip = RequestIp(req.headers)
              /\ v.user_agent = RequestAgent(req.headers)
              /\ v.referer = RequestReferer(req.headers)

C8_Witness ==
    /\ IsLanding(req)
    /\ res.status = 200
    /\ res.visitId = 2
    /\ req.headers = Visitor_Direct
    /\ Len(links) = 2
    /\ VisitById(1).consented = 1

\* C9: a successful GET /l/:slug appends exactly one visit row and leaves the
\* others as they were; the visitId in the page is the id of no earlier visit
\* and names a visit of the link of the slug; and no step ever removes a visit.
C9_FreshAttributableVisit ==
    [][/\ (IsLanding(req') /\ res'.status = 200) =>
            /\ Len(visits') = Len(visits) + 1
            /\ SubSeq(visits', 1, Len(visits)) = visits
            /\ ~HasVisit(res'.visitId)
            /\ \E i \in 1..Len(visits'), k \in 1..Len(links) :
                  /\ visits'[i].id = res'.visitId
                  /\ links[k].slug = req'.slug
                  /\ visits'[i].link_id = links[k].id
       /\ \A i \in 1..Len(visits) :
             \E j \in 1..Len(visits') : visits'[j].id = visits[i].id]_vars

C9_Witness ==
    /\ IsLanding(req)
    /\ res.status = 200
    /\ res.visitId = 2
    /\ VisitById(1).link_id # VisitById(2).link_id
    /\ resolved = {}

-----------------------------------------------------------------------------
(* Creating links *)

\* a target URL that is missing, empty, or lacks the http:// or https://
\* prefix (the scheme compared without regard to letter case)
LacksHttpPrefix(u) ==
    \/ u.t # "str"
    \/ u.s = <<>>
    \/ /\ ~IsPrefix(<<"h", "t", "t", "p", ":", "/", "/">>, LowerCase(u.s))
       /\ ~IsPrefix(<<"h", "t", "t", "p", "s", ":", "/", "/">>, LowerCase(u.s))

\* C10: an authenticated create whose targetUrl is empty, missing or without
\* the http:// or https:// prefix is answered 400 and the links table is the
\* same before and after.
C10_InvalidUrlRejected ==
    [][(IsCreate(req') /\ Authorized(req'.auth) /\ LacksHttpPrefix(req'.body.target_url))
          => (res'.status = 400 /\ links' = links)]_vars

C10_Witness ==
    /\ IsCreate(req)
    /\ Authorized(req.auth)
    /\ req.body = Body_inner
    /\ res.status = 400
    /\ Len(links) = 1

-----------------------------------------------------------------------------
(* Unknown slugs *)

\* C6: GET /l/:slug for a slug no stored link has is answered 404 and records
\* nothing: the logs are the same before and after.
C6_UnknownSlugRecordsNothing ==
    [][(IsLanding(req') /\ ~MemHasLink(req'.slug))
          => (res'.status = 404 /\ memLogs' = memLogs)]_vars

\* the same statement for the SQLite-backed application, where it holds
UnknownSlugRecordsNoVisit ==
    [][(IsLanding(req') /\ LinkBySlug(req'.slug) = 0)
          => (res'.status = 404 /\ visits' = visits)]_vars

-----------------------------------------------------------------------------
(* The redirect *)

Chosen == page.loaded /\ (page.allowBtn = "disabled" \/ page.skips > 0)

\* C7: once the visitor has chosen allow or skip, the browser eventually
\* navigates to the target URL, whatever becomes of the location request and of
\* the resolution request.
C7_AlwaysNavigates == Chosen ~> page.navigated

-----------------------------------------------------------------------------
(* Slugs *)

\* C11: in every reachable state no two stored links have the same slug, in
\* the links table and in the links array of server.js alike (a create that
\* names an existing slug must fail and leave the stored links as they were).
C11_SlugsUnique ==
    /\ \A i, j \in 1..Len(links) : links[i].slug = links[j].slug => i = j
    /\ \A i, j \in 1..Len(memLinks) : memLinks[i].slug = memLinks[j].slug => i = j

\* the part of C11 about a create that collides, for the SQLite-backed
\* application, where it holds: the response is an error and links is as before
CollidingCreateFails ==
    [][(IsCreate(req') /\ res'.status = 500) => links' = links]_vars

\* a create request whose targetUrl the handler accepts
AcceptableCreate(r) ==
    /\ IsCreate(r)
    /\ Authorized(r.auth)
    /\ ~LacksHttpPrefix(r.body.target_url)

\* C12: an authenticated create with an http(s) targetUrl succeeds and adds
\* exactly one link, whose slug no earlier link has, also when the generator
\* first returns a stored slug; a collision is retried internally and the only
\* other answer is a conflict (409), with the links as they were.
C12_CreateSucceeds ==
    [][AcceptableCreate(req') =>
          \/ /\ res'.status = 302
             /\ Len(links') = Len(links) + 1
             /\ SubSeq(links', 1, Len(links)) = links
             /\ LinkBySlug(links'[Len(links')].slug) = 0
          \/ /\ res'.status = 409
             /\ links' = links]_vars

-----------------------------------------------------------------------------
(* What a resolve call may touch *)

\* the columns of a visit written by the INSERT of GET /l/:slug and never again
CreationFields(row) ==
    <<row.id, row.link_id, row.created_at, row.ip, row.user_agent, row.referer>>

\* C13: link_id, created_at, ip, user_agent and referer of every visit are the
\* same after every step as before it: no resolve call, valid or not, no
\* review read and no later request changes them, and the visit stays stored.
C13_CreationFieldsFixed ==
    [][/\ Len(visits') >= Len(visits)
       /\ \A i \in 1..Len(visits) :
             CreationFields(visits'[i]) = CreationFields(visits[i])]_vars

\* a visit taken at time 0 from "a:b:1:2:3:4:5:6", resolved with half a
\* location after the clock has advanced
C13_Witness ==
    /\ IsApiVisit(req)
    /\ req.body = Consented_Partial
    /\ res.status = 200
    /\ now = 1
    /\ HasVisit(2)
    /\ VisitById(2).created_at = 0
    /\ VisitById(2).ip = T_v6
    /\ VisitById(2).consented = 1

\* C14: a resolve call naming visitId v leaves every visit whose id is not v
\* exactly as it was, adds and removes no visit, and changes no link.
C14_OtherVisitsUntouched ==
    [][IsApiVisit(req') =>
          /\ links' = links
          /\ Len(visits') = Len(visits)
          /\ \A i \in 1..Len(visits) :
                (req'.visitId.t # "num" \/ visits[i].id # req'.visitId.n)
                    => visits'[i] = visits[i]]_vars

\* visit 2 resolved with consent while visit 1 is still pending
C14_Witness ==
    /\ IsApiVisit(req)
    /\ req.visitId = Num(2)
    /\ req.body = Consented_A
    /\ res.status = 200
    /\ HasVisit(2)
    /\ VisitById(2).consented = 1
    /\ VisitById(1).consented = 0
    /\ VisitById(1).latitude = Null
    /\ Len(links) = 2

-----------------------------------------------------------------------------
(* What the administrator sees of an address *)

IsDetail(r) == r.op = "GET /links/:slug"

IsIPv6(ip) == IndexOf(ip, <<":">>) # 0

\* the eight groups of an IPv6 address, the zero run of "::" written out
Groups(ip) ==
    LET segs == Split(ip, ":")
        IsGroup(g) == g # <<>>
        gap == IF \E i \in 1..Len(segs) : segs[i] = <<>>
               THEN CHOOSE i \in 1..Len(segs) :
                        segs[i] = <<>> /\ \A j \in 1..(i - 1) : segs[j] # <<>>
               ELSE 0
        head == SelectSeq(SubSeq(segs, 1, gap - 1), IsGroup)
        tail == SelectSeq(SubSeq(segs, gap + 1, Len(segs)), IsGroup)
    IN IF gap = 0 THEN segs
       ELSE head \o [i \in 1..(8 - Len(head) - Len(tail)) |-> <<"0">>] \o tail

FirstHalf(ip) == { Groups(ip)[i] : i \in 1..4 }

\* the pieces of a displayed address between its colons, the mask aside
ShownPieces(shown) ==
    LET segs == Split(shown, ":")
    IN { segs[i] : i \in 1..Len(segs) } \ {<<>>, Tail(T_stars) \o T_masked}

\* the display of a stored address hides what it must
MaskedAsPromised(ip, shown) ==
    /\ IsDottedQuad(ip) =>
          LET p == Split(ip, ".")
          IN shown = p[1] \o <<".">> \o p[2] \o <<".">> \o p[3] \o <<".", "0">> \o T_masked
    /\ IsIPv6(ip) =>
          /\ ShownPieces(shown) \subseteq FirstHalf(ip)
          /\ Cardinality(ShownPieces(shown)) <= 4

\* C15: in the visit history an IPv4 address is shown as its first three
\* octets followed by ".0" and the masked marker; an IPv6 address, written in
\* full or with "::", is shown as groups of its first half only, never a group
\* of its last half; and the read leaves the stored visits as they were.
C15_AddressesMasked ==
    [][(IsDetail(req') /\ res'.status = 200) =>
          /\ visits' = visits
          /\ \A k \in 1..Len(res'.visits) :
                MaskedAsPromised(res'.visits[k].ip, res'.table[k].ip)]_vars

\* the same for addresses written without "::", where it holds
FullFormsMasked ==
    [][(IsDetail(req') /\ res'.status = 200) =>
          /\ visits' = visits
          /\ \A k \in 1..Len(res'.visits) :
                res'.visits[k].ip # T_v6short =>
                    MaskedAsPromised(res'.visits[k].ip, res'.table[k].ip)]_vars

-----------------------------------------------------------------------------
(* The visit history of a link *)

\* rows are stored visits of the link, at most limit of them, each inserted
\* after (and stamped no earlier than) the one that follows it, and every visit
\* of the link that is left out is older than all of them
RecentFirst(rows, linkId, limit) ==
    LET mine == { i \in 1..Len(visits) : visits[i].link_id = linkId }
    IN /\ \A k \in 1..Len(rows) : \E i \in mine : rows[k] = visits[i]
       /\ Len(rows) <= limit
       /\ Len(rows) = Cardinality(mine) \/ Len(rows) = limit
       /\ \A k \in 1..(Len(rows) - 1) :
             /\ rows[k].id > rows[k + 1].id
             /\ rows[k].created_at >= rows[k + 1].created_at
       /\ \A i \in mine :
             (\A k \in 1..Len(rows) : rows[k] # visits[i])
                 => \A k \in 1..Len(rows) : visits[i].id < rows[k].id

\* C16: the visit history of a link is read without changing a link or a
\* visit and holds only visits of that link, at most the limit, most recent
\* first, and the most recent ones, pending and resolved alike; for the limit
\* of the handler and for every smaller limit.
C16_HistoryRecentFirst ==
    [][/\ (IsDetail(req') /\ res'.status = 200) =>
             /\ visits' = visits
             /\ links' = links
             /\ RecentFirst(res'.visits, res'.link.id, VisitLimit)
       /\ \A i \in 1..Len(links), n \in 0..MaxVisits :
             RecentFirst(VisitsOfLink(links[i].id, n), links[i].id, n)]_vars

\* two visits of one link taken at different times, the older one resolved,
\* the newer one pending; a limit of 1 returns the newer one only
C16_Witness ==
    /\ IsDetail(req)
    /\ res.status = 200
    /\ Len(res.visits) = 2
    /\ res.visits[1].created_at = 1 /\ res.visits[1].consented = 0
    /\ res.visits[2].created_at = 0 /\ res.visits[2].consented = 1
    /\ VisitsOfLink(res.link.id, 1) = <<res.visits[1]>>

-----------------------------------------------------------------------------
(* Credentials *)

IsAdminRoute(r) == r.op \in {"GET /", "POST /create", "GET /links/:slug", "GET /logs"}

IsPublicRoute(r) == r.op \in {"GET /l/:slug", "POST /api/visit", "GET /health"}

\* the request carries exactly the configured user name and password
HasConfiguredPair(auth) ==
    /\ auth.t = "basic"
    /\ auth.user = AdminUser
    /\ auth.pass = AdminPass

\* C17: a request to an admin route (dashboard, create, link detail, logs)
\* that does not carry the configured user name and password is answered 401
\* and changes no link, visit or log, whatever requests came before it; the
\* public routes, which carry no credentials, are never answered 401.
C17_AdminNeedsPair ==
    [][/\ (IsAdminRoute(req') /\ ~HasConfiguredPair(req'.auth)) =>
             /\ res'.status = 401
             /\ links' = links /\ visits' = visits
             /\ memLinks' = memLinks /\ memLogs' = memLogs
       /\ IsPublicRoute(req') => res'.status # 401]_vars

-----------------------------------------------------------------------------
(* Stored links *)

\* slug, target_url and created_at of a link, with its id
LinkFields(row) == <<row.id, row.slug, row.target_url, row.created_at>>

\* C18: every stored link has a target_url that begins with http:// or
\* https:// (the scheme compared without regard to letter case); no step
\* removes a link or changes the slug, target_url or created_at of a stored
\* link; and a visitor request, a resolve call or a review read leaves the
\* links table exactly as it was.
C18_LinksValidAndFixed ==
    [][/\ \A i \in 1..Len(links') : ~LacksHttpPrefix(Str(links'[i].target_url))
       /\ Len(links') >= Len(links)
       /\ \A i \in 1..Len(links) : LinkFields(links'[i]) = LinkFields(links[i])
       /\ (IsLanding(req') \/ IsApiVisit(req') \/ IsDetail(req') \/ req'.op = "GET /")
             => links' = links]_vars

\* two links created at different times, and a resolve call answered after
\* both of them
C18_Witness ==
    /\ Len(links) = 2
    /\ links[1].created_at = 0
    /\ links[2].created_at = 1
    /\ links[1].target_url = T_HTTPS
    /\ links[1].slug # links[2].slug
    /\ IsApiVisit(req)
    /\ res.status = 200
    /\ HasVisit(1)
    /\ VisitById(1).consented = 1

-----------------------------------------------------------------------------
(* Skip *)

\* skip was pressed while the page had sent no consented request: before
\* allow, or after allow with the location request still outstanding
SkippedBeforeLocation ==
    \E i \in 1..Len(page.fetches) :
        /\ page.fetches[i].body.reason = Str(<<"s", "k">>)
        /\ \A j \in 1..(i - 1) : page.fetches[j].body.consented = Bool(FALSE)

\* the page is gone and the server has handled every request it sent
Settled ==
    /\ page.unloaded
    /\ \A i \in 1..Len(page.fetches) : page.fetches[i].handled

\* C19: when the visitor has pressed skip on a page load, also after pressing
\* allow with the location request still outstanding, then however the skip
\* callback, the geolocation callback and the server's handling of the two
\* requests interleave, the visit does not end with consented set and
\* coordinates stored.
C19_SkipEndsWithoutLocation ==
    (SkippedBeforeLocation /\ Settled) =>
        LET v == VisitById(page.visitId)
        IN ~(v.consented = 1 /\ IsNumber(v.latitude) /\ IsNumber(v.longitude))

=============================================================================
